---- MODULE Spec2Model ----
(***************************************************************************)
(* Timesheet entries page (src/src/pages/TimesheetEntries.tsx, the         *)
(* revision at lines 564-2038): entry lock policy, row handlers, bulk      *)
(* actions, single status change and the "request approval" orchestration, *)
(* together with the REST backend they talk to, seen as a plain store.     *)
(*                                                                         *)
(* One behaviour is one viewing session of one authenticated user.  Every  *)
(* await of the source is a separate step: the request is handled by the   *)
(* backend and the continuation of the handler runs in that step.          *)
(***************************************************************************)
EXTENDS Integers, FiniteSets, Sequences, TLC

\* ------------------------------------------------------------------ bounds
\* entry identifiers the backend can hand out
MaxEntries == 2
\* submission identifiers the backend can hand out
MaxSubs == 2
\* requests in flight beyond which the user starts no new operation
MaxInFlight == 2
\* overlapping runs of handleRequestApproval
MaxReq == 2
\* saturation of the completed-run counter
MaxRuns == 2
\* write operations the user starts in one session
MaxOps == 2

EntryIds == 1..MaxEntries
SubIds   == 1..MaxSubs
ReqSlots == 1..MaxReq

\* ------------------------------------------------------------- vocabulary
Me         == "u1"                 \* currentUser.id
Users      == {"u1", "u2"}
Months     == {1, 2}               \* calendar months "YYYY-MM", abstracted
\* getCurrentMonth()
CurrentMonth == 1

CONSULTANT      == "CONSULTANT"
ADMIN           == "ADMIN"
PROJECT_MANAGER == "PROJECT_MANAGER"
FINANCE         == "FINANCE"
UserRole  == {CONSULTANT, PROJECT_MANAGER, ADMIN, FINANCE}
\* roles allowed on /timesheet-entries
PageRoles == {ADMIN, PROJECT_MANAGER, CONSULTANT}

PENDING  == "PENDING"
APPROVED == "APPROVED"
REJECTED == "REJECTED"
TimesheetStatus == {PENDING, APPROVED, REJECTED}

SubmissionStatus == {"DRAFT", "SUBMITTED", "IN_REVIEW", "CHANGES_REQUESTED", "APPROVED"}

\* submissionId values: 0 is null/undefined, -1 is the empty string ''
NoId    == 0
EmptyId == 0 - 1
\* approverId: "" is absent
NoUser == ""

\* A TimesheetEntry; present = FALSE is "no such entry".
NoEntry == [present |-> FALSE, userId |-> NoUser, month |-> 0, status |-> PENDING,
            submissionId |-> NoId, approverId |-> NoUser]
NewEntry(u, m, st) == [present |-> TRUE, userId |-> u, month |-> m, status |-> st,
                       submissionId |-> NoId, approverId |-> NoUser]
EmptyEntries == [i \in EntryIds |-> NoEntry]

\* A timesheet submission; present = FALSE is "no such submission" (null).
NoSub == [present |-> FALSE, id |-> NoId, userId |-> NoUser, month |-> 0, status |-> "DRAFT"]
Sub(i, u, m, st) == [present |-> TRUE, id |-> i, userId |-> u, month |-> m, status |-> st]

VARIABLES
  role,                    \* currentUser.role
  dbEntries,               \* backend: /timesheet-entries
  dbDeleted,               \* backend: identifiers of deleted entries (never reused)
  dbSubs,                  \* backend: /timesheet-submissions
  entries,                 \* useState entries
  loading,                 \* useState loading
  currentMonthSubmission,  \* useState currentMonthSubmission
  filterMonth,             \* filters.filterMonth
  selectedEntries,         \* useState selectedEntries
  form,                    \* isModalOpen + editingEntry + request in flight
  bulkActionModal,         \* useState bulkActionModal + its calls in flight
  statusChangeModal,       \* useState statusChangeModal + its call in flight
  requestApprovalModal,    \* useState requestApprovalModal.isOpen
  req,                     \* runs of handleRequestApproval in flight
  deleting,                \* DELETE calls of handleDelete in flight
  fetchSent,               \* fetchData calls in flight
  lookups,                 \* fetchCurrentMonthSubmission calls in flight
  runsDone,                \* runs of handleRequestApproval completed, per month
  notice,                  \* what the last handler told the user (alert) or skipped
  ops,                     \* write operations the user has started in this session
  probe                    \* inputs and results of the lock-policy functions

vars == <<role, dbEntries, dbDeleted, dbSubs, entries, loading, currentMonthSubmission,
          filterMonth, selectedEntries, form, bulkActionModal, statusChangeModal,
          requestApprovalModal, req, deleting, fetchSent, lookups,
          runsDone, notice, ops, probe>>

\* ------------------------------------------------------------ lock policy
\* JavaScript truthiness of an optional string id
Truthy(id) == id # NoId /\ id # EmptyId

isConsultant == role = CONSULTANT
isAdmin      == role = ADMIN

LockingStatuses == {"SUBMITTED", "CHANGES_REQUESTED", "APPROVED"}

\* C9 mutant: every status but DRAFT locks the month
isMonthLockedNotDraft(r, submission) ==
  IF r # CONSULTANT \/ ~submission.present THEN FALSE
  ELSE submission.status # "DRAFT"

isMonthLockedFor(r, submission) ==
  IF r # CONSULTANT \/ ~submission.present THEN FALSE
  ELSE submission.status \in LockingStatuses

isMonthLocked == isMonthLockedFor(role, currentMonthSubmission)

\* C8 mutant: an entry that has been approved or rejected is not locked
isEntryLockedWhilePending(r, entry) ==
  IF r # CONSULTANT THEN FALSE
  ELSE Truthy(entry.submissionId) /\ entry.status = PENDING

isEntryLockedFor(r, entry) ==
  IF r # CONSULTANT THEN FALSE
  ELSE Truthy(entry.submissionId)

isEntryLocked(entry) == isEntryLockedFor(role, entry)

\* ------------------------------------------------------- derived page data
LoadedIds == {i \in EntryIds : entries[i].present}

\* step 1 of filteredAndGroupedEntries: the mandatory month filter
MonthIds(coll, m) == {i \in EntryIds : coll[i].present /\ coll[i].month = m}

\* ids of allVisibleEntries for a collection and an active month
VisibleIdsOf(coll, m) ==
  IF isConsultant THEN {i \in MonthIds(coll, m) : coll[i].userId = Me}
  ELSE MonthIds(coll, m)

allVisibleEntries == VisibleIdsOf(entries, filterMonth)

availableMonths == {entries[i].month : i \in LoadedIds}

\* monthEntries of handleRequestApproval / getMonthTotalHours
monthEntries(m) == {i \in LoadedIds : entries[i].userId = Me /\ entries[i].month = m}

\* C25 mutant: the selection is never reconciled
ReconcileKeepsAll(sel, coll, m) == sel

\* the effect that drops selected ids that are no longer visible
Reconcile(sel, coll, m) == sel \cap VisibleIdsOf(coll, m)

\* ------------------------------------------------------------------ state
NoForm   == [open |-> FALSE, editing |-> NoId, saving |-> FALSE, target |-> NoId,
             data |-> NoEntry]
NoBulk   == [isOpen |-> FALSE, action |-> "none", call |-> "none", todo |-> {},
             awaiting |-> FALSE]
NoStatus == [isOpen |-> FALSE, entry |-> NoId, newStatus |-> PENDING,
             callId |-> NoId, callStatus |-> PENDING]
IdleReq  == [pc |-> "idle", month |-> 0, ids |-> {}, todo |-> {}, subId |-> NoId]
NoNotice == [op |-> "none", id |-> NoId, kind |-> "none", count |-> 0]
NoProbe  == [role |-> ADMIN, submissionId |-> NoId, status |-> PENDING, sub |-> NoSub,
             applied |-> FALSE, entryLocked |-> FALSE, monthLocked |-> FALSE]

Notice(op, i, kind, n) == [op |-> op, id |-> i, kind |-> kind, count |-> n]

\* no modal is open: the page controls behind the overlay can be used
PageInteractive ==
  /\ ~form.open
  /\ ~bulkActionModal.isOpen
  /\ ~statusChangeModal.isOpen
  /\ ~requestApprovalModal

\* requests and runs that have been started and have not completed
InFlight ==
  fetchSent + Cardinality(lookups) + Cardinality(deleting)
    + (IF form.saving THEN 1 ELSE 0) + Cardinality(bulkActionModal.todo)
    + (IF statusChangeModal.callId # NoId THEN 1 ELSE 0)
    + Cardinality({s \in ReqSlots : req[s].pc # "idle"})

\* the user starts an operation that issues requests only below the bound
UserRoom == InFlight < MaxInFlight

\* the user starts a write operation only below the session bound
WriteRoom == UserRoom /\ ops < MaxOps

\* the users whose hours the acting user records: a consultant its own
\* (hidden userId field), an elevated user those of the other user
FormUsers(r) == IF r = CONSULTANT THEN {Me} ELSE Users \ {Me}

\* State after the page has mounted as a user of role r over a backend that
\* holds the entries es and the submissions subs: the mount effects have
\* issued fetchData and, for a consultant, fetchCurrentMonthSubmission.
InitWith(r, es, subs) ==
  /\ role = r
  /\ dbEntries = es
  /\ dbDeleted = {}
  /\ dbSubs = subs
  /\ entries = EmptyEntries
  /\ loading = TRUE
  /\ currentMonthSubmission = NoSub
  /\ filterMonth = CurrentMonth
  /\ selectedEntries = {}
  /\ form = NoForm
  /\ bulkActionModal = NoBulk
  /\ statusChangeModal = NoStatus
  /\ requestApprovalModal = FALSE
  /\ req = [s \in ReqSlots |-> IdleReq]
  /\ deleting = {}
  /\ fetchSent = 1
  /\ lookups = IF r = CONSULTANT THEN {CurrentMonth} ELSE {}
  /\ runsDone = [m \in Months |-> 0]
  /\ notice = NoNotice
  /\ ops = 0
  /\ probe = NoProbe

NoSubs == [i \in SubIds |-> NoSub]

\* entry 1 of the acting user in the current month, and e as entry 2
TwoEntries(e) ==
  [i \in EntryIds |-> IF i = 1 THEN NewEntry(Me, CurrentMonth, PENDING)
                      ELSE IF i = 2 THEN e
                      ELSE NoEntry]

\* the other user has submitted the current month: its submission has the
\* last identifier and its entry 2 references it
OtherSubmitted ==
  [i \in SubIds |-> IF i = MaxSubs THEN Sub(i, "u2", CurrentMonth, "SUBMITTED") ELSE NoSub]

\* A session of a consultant.  The backend holds entry 1 of the consultant
\* and possibly an entry 2 in the current month: an own one, or one of the
\* other user, which that user may have submitted already.
InitConsultant ==
  \/ \E e \in {NoEntry} \cup {NewEntry(u, CurrentMonth, PENDING) : u \in Users} :
       InitWith(CONSULTANT, TwoEntries(e), NoSubs)
  \/ InitWith(CONSULTANT,
              TwoEntries([NewEntry("u2", CurrentMonth, PENDING) EXCEPT !.submissionId = MaxSubs]),
              OtherSubmitted)

\* A session of an admin.  The backend holds entry 1 of the admin and
\* possibly an entry 2 of the other user in the current month.
InitAdmin ==
  \E e \in {NoEntry, NewEntry("u2", CurrentMonth, PENDING)} :
    InitWith(ADMIN, TwoEntries(e), NoSubs)

\* ------------------------------------------------------------- fetchData
\* one fetchData call completes: GET /timesheet-entries is answered and the
\* continuation runs (users and projects are not modelled).  On success
\* setEntries, on failure only the log; setLoading(false) in both cases; the
\* selection effect runs on the re-render.
DeliverFetch(ok) ==
  /\ fetchSent > 0
  /\ fetchSent' = fetchSent - 1
  /\ entries' = IF ok THEN dbEntries ELSE entries
  /\ loading' = FALSE
  /\ selectedEntries' = Reconcile(selectedEntries, entries', filterMonth)
  /\ notice' = NoNotice
  /\ UNCHANGED <<role, dbEntries, dbDeleted, dbSubs, currentMonthSubmission, filterMonth,
                 form, bulkActionModal, statusChangeModal, requestApprovalModal, req,
                 deleting, lookups, runsDone, ops, probe>>

\* ------------------------------------------ fetchCurrentMonthSubmission
\* submissions of a user for a month, as the by-user-month endpoint finds them
SubsOf(u, m) == {i \in SubIds : dbSubs[i].present /\ dbSubs[i].userId = u /\ dbSubs[i].month = m}

\* C1 mutant: the lookup never finds the submission of the month
LookupAnswersNeverFound(u, m) ==
  {[st |-> "404", sub |-> NoSub], [st |-> "error", sub |-> NoSub]}

\* the possible answers of GET by-user-month: a record, 404, or another failure
LookupAnswers(u, m) ==
  {[st |-> "found", sub |-> dbSubs[i]] : i \in SubsOf(u, m)}
    \cup (IF SubsOf(u, m) = {} THEN {[st |-> "404", sub |-> NoSub]} ELSE {})
    \cup {[st |-> "error", sub |-> NoSub]}

\* C27 mutant: a 404 leaves the held submission as it is
submissionAfter404Kept(a, held) == IF a.st = "found" THEN a.sub ELSE held

\* what fetchCurrentMonthSubmission holds after the answer a
submissionAfter(a, held) ==
  IF a.st = "found" THEN a.sub
  ELSE IF a.st = "404" THEN NoSub
  ELSE held

\* one fetchCurrentMonthSubmission call completes; m is the month the call
\* was issued for
LookupDelivered(m, a) ==
  /\ m \in lookups
  /\ a \in LookupAnswers(Me, m)
  /\ lookups' = lookups \ {m}
  /\ currentMonthSubmission' = submissionAfter(a, currentMonthSubmission)
  /\ notice' = NoNotice
  /\ UNCHANGED <<role, dbEntries, dbDeleted, dbSubs, entries, loading, filterMonth,
                 selectedEntries, form, bulkActionModal, statusChangeModal,
                 requestApprovalModal, req, deleting, fetchSent, runsDone, ops, probe>>

DeliverLookup(m) == \E a \in LookupAnswers(Me, m) : LookupDelivered(m, a)

\* ---------------------------------------------------------- month timeline
\* click on a month button; the submission effect runs when filterMonth changed
SelectMonth(m) ==
  /\ PageInteractive
  /\ m \in availableMonths
  /\ (m # filterMonth /\ isConsultant) => UserRoom
  /\ filterMonth' = m
  /\ selectedEntries' = Reconcile(selectedEntries, entries, m)
  /\ lookups' = IF m # filterMonth /\ isConsultant
                THEN lookups \cup {m}
                ELSE lookups
  /\ currentMonthSubmission' = IF isConsultant THEN currentMonthSubmission ELSE NoSub
  /\ notice' = NoNotice
  /\ UNCHANGED <<role, dbEntries, dbDeleted, dbSubs, entries, loading, form, bulkActionModal,
                 statusChangeModal, requestApprovalModal, req, deleting, fetchSent, runsDone, ops, probe>>

\* ------------------------------------------------------------ row handlers
\* rows the handlers are invoked on: the entries of the active month.  The
\* owner filter of the visible list is not assumed here, so that the
\* ownership guard of the handlers is what refuses a foreign entry.
RowIds == MonthIds(entries, filterMonth)

\* C4 mutant: the ownership check runs before the lock check
RowGuardOwnerFirst(entry) ==
  IF isConsultant /\ entry.userId # Me THEN "owner"
  ELSE IF isEntryLocked(entry) THEN "locked"
  ELSE "pass"

\* C5 mutant: the ownership check is missing
RowGuardLockOnly(entry) ==
  IF isEntryLocked(entry) THEN "locked"
  ELSE "pass"

\* the two guards shared by handleEdit, handleDelete and handleDuplicate:
\* "locked", "owner" or "pass"
RowGuard(entry) ==
  IF isEntryLocked(entry) THEN "locked"
  ELSE IF isConsultant /\ entry.userId # Me THEN "owner"
  ELSE "pass"

handleCreate ==
  /\ PageInteractive
  /\ form' = [form EXCEPT !.open = TRUE, !.editing = NoId]
  /\ notice' = NoNotice
  /\ UNCHANGED <<role, dbEntries, dbDeleted, dbSubs, entries, loading, currentMonthSubmission,
                 filterMonth, selectedEntries, bulkActionModal, statusChangeModal,
                 requestApprovalModal, req, deleting, fetchSent, lookups,
                 runsDone, ops, probe>>

handleEdit(i) ==
  /\ PageInteractive
  /\ i \in RowIds
  /\ LET g == RowGuard(entries[i]) IN
       IF g # "pass"
       THEN /\ notice' = Notice("edit", i, g, 0)
            /\ UNCHANGED form
       ELSE /\ form' = [form EXCEPT !.open = TRUE, !.editing = i]
            /\ notice' = NoNotice
  /\ UNCHANGED <<role, dbEntries, dbDeleted, dbSubs, entries, loading, currentMonthSubmission,
                 filterMonth, selectedEntries, bulkActionModal, statusChangeModal,
                 requestApprovalModal, req, deleting, fetchSent, lookups,
                 runsDone, ops, probe>>

handleDuplicate(i) ==
  /\ PageInteractive
  /\ i \in RowIds
  /\ LET g == RowGuard(entries[i]) IN
       IF g # "pass"
       THEN /\ notice' = Notice("duplicate", i, g, 0)
            /\ UNCHANGED form
       ELSE /\ form' = [form EXCEPT !.open = TRUE, !.editing = NoId]
            /\ notice' = NoNotice
  /\ UNCHANGED <<role, dbEntries, dbDeleted, dbSubs, entries, loading, currentMonthSubmission,
                 filterMonth, selectedEntries, bulkActionModal, statusChangeModal,
                 requestApprovalModal, req, deleting, fetchSent, lookups,
                 runsDone, ops, probe>>

\* handleDelete up to the await: guards, confirm(), DELETE issued
handleDelete(i) ==
  /\ PageInteractive
  /\ i \in RowIds
  /\ LET g == RowGuard(entries[i]) IN
       IF g # "pass"
       THEN /\ notice' = Notice("delete", i, g, 0)
            /\ UNCHANGED <<deleting, ops>>
       ELSE /\ i \notin deleting
            /\ WriteRoom
            /\ deleting' = deleting \cup {i}
            /\ ops' = ops + 1
            /\ notice' = NoNotice
  /\ UNCHANGED <<role, dbEntries, dbDeleted, dbSubs, entries, loading, currentMonthSubmission,
                 filterMonth, selectedEntries, form, bulkActionModal, statusChangeModal,
                 requestApprovalModal, req, fetchSent, lookups, runsDone, probe>>

\* DELETE /timesheet-entries/{id} succeeds; handleDelete goes on to fetchData()
DeleteOk(i) ==
  /\ i \in deleting
  /\ dbEntries[i].present
  /\ dbEntries' = [dbEntries EXCEPT ![i] = NoEntry]
  /\ dbDeleted' = dbDeleted \cup {i}
  /\ deleting' = deleting \ {i}
  /\ fetchSent' = fetchSent + 1
  /\ notice' = NoNotice
  /\ UNCHANGED <<role, dbSubs, entries, loading, currentMonthSubmission, filterMonth,
                 selectedEntries, form, bulkActionModal, statusChangeModal,
                 requestApprovalModal, req, lookups, runsDone, ops, probe>>

\* the DELETE is rejected or lost: the catch block alerts, nothing else
DeleteFail(i) ==
  /\ i \in deleting
  /\ deleting' = deleting \ {i}
  /\ notice' = Notice("delete", i, "error", 0)
  /\ UNCHANGED <<role, dbEntries, dbDeleted, dbSubs, entries, loading, currentMonthSubmission,
                 filterMonth, selectedEntries, form, bulkActionModal, statusChangeModal,
                 requestApprovalModal, req, fetchSent, lookups, runsDone,
                 ops, probe>>

\* ---------------------------------------------------------------- the form
\* the Cancelar button / onClose of the entry form
CloseForm ==
  /\ form.open
  /\ form' = [form EXCEPT !.open = FALSE, !.editing = NoId]
  /\ notice' = NoNotice
  /\ UNCHANGED <<role, dbEntries, dbDeleted, dbSubs, entries, loading, currentMonthSubmission,
                 filterMonth, selectedEntries, bulkActionModal, statusChangeModal,
                 requestApprovalModal, req, deleting, fetchSent, lookups,
                 runsDone, ops, probe>>

\* onSubmit up to the await: the payload is built and PATCH or POST is issued.
\* A consultant's userId is its own id (hidden field, own entries only) and
\* its status is always PENDING; the other roles choose both in the form.
onSubmit(u, m, st) ==
  /\ form.open
  /\ ~form.saving
  /\ WriteRoom
  /\ u \in FormUsers(role) /\ m \in Months /\ st \in TimesheetStatus
  /\ form' = [form EXCEPT !.saving = TRUE, !.target = form.editing,
                           !.data = NewEntry(u, m, IF isConsultant THEN PENDING ELSE st)]
  /\ ops' = ops + 1
  /\ notice' = NoNotice
  /\ UNCHANGED <<role, dbEntries, dbDeleted, dbSubs, entries, loading, currentMonthSubmission,
                 filterMonth, selectedEntries, bulkActionModal, statusChangeModal,
                 requestApprovalModal, req, deleting, fetchSent, lookups,
                 runsDone, probe>>

\* the identifier the backend gives to a created record
FreeEntryIds == {i \in EntryIds : ~dbEntries[i].present /\ i \notin dbDeleted}
FreeSubIds   == {i \in SubIds : ~dbSubs[i].present}
MinOf(S) == CHOOSE x \in S : \A y \in S : x <= y

\* C24 mutant: the form payload replaces the whole entry
PatchFormReplacesAll(old, data) == data

\* PATCH /timesheet-entries/{id} with the form payload: the fields of the
\* payload are replaced, the others are kept
PatchForm(old, data) ==
  [old EXCEPT !.userId = data.userId, !.month = data.month, !.status = data.status]

\* the write succeeds; onSubmit goes on: setIsModalOpen(false); fetchData()
SaveOk ==
  /\ form.saving
  /\ IF form.target # NoId
     THEN /\ dbEntries[form.target].present
          /\ dbEntries' = [dbEntries EXCEPT ![form.target] = PatchForm(@, form.data)]
     ELSE /\ FreeEntryIds # {}
          /\ dbEntries' = [dbEntries EXCEPT ![MinOf(FreeEntryIds)] = form.data]
  /\ form' = NoForm
  /\ fetchSent' = fetchSent + 1
  /\ notice' = NoNotice
  /\ UNCHANGED <<role, dbDeleted, dbSubs, entries, loading, currentMonthSubmission, filterMonth,
                 selectedEntries, bulkActionModal, statusChangeModal,
                 requestApprovalModal, req, deleting, lookups, runsDone,
                 ops, probe>>

\* the write fails: alert, the form stays as it is
SaveFail ==
  /\ form.saving
  /\ form' = [form EXCEPT !.saving = FALSE, !.target = NoId, !.data = NoEntry]
  /\ notice' = Notice("save", form.target, "error", 0)
  /\ UNCHANGED <<role, dbEntries, dbDeleted, dbSubs, entries, loading, currentMonthSubmission,
                 filterMonth, selectedEntries, bulkActionModal, statusChangeModal,
                 requestApprovalModal, req, deleting, fetchSent, lookups,
                 runsDone, ops, probe>>

\* ----------------------------------------------------------- selection
handleSelectEntry(i, selected) ==
  /\ PageInteractive
  /\ i \in allVisibleEntries
  /\ IF selected /\ isEntryLocked(entries[i])
     THEN /\ notice' = Notice("select", i, "locked", 0)
          /\ UNCHANGED selectedEntries
     ELSE /\ selectedEntries' = IF selected THEN selectedEntries \cup {i}
                                ELSE selectedEntries \ {i}
          /\ notice' = NoNotice
  /\ UNCHANGED <<role, dbEntries, dbDeleted, dbSubs, entries, loading, currentMonthSubmission,
                 filterMonth, form, bulkActionModal, statusChangeModal,
                 requestApprovalModal, req, deleting, fetchSent, lookups,
                 runsDone, ops, probe>>

\* the selection that handleSelectAllVisible sets, given the ids of the
\* visible entries that are not locked
selectAllResult(selectableIds, selected) ==
  LET allSelected == selectableIds # {} /\ selectableIds \subseteq selected
  IN IF allSelected THEN {} ELSE selectableIds

handleSelectAllVisible ==
  /\ PageInteractive
  /\ allVisibleEntries # {}
  /\ LET selectableIds == {i \in allVisibleEntries : ~isEntryLocked(entries[i])}
     IN selectedEntries' = selectAllResult(selectableIds, selectedEntries)
  /\ notice' = NoNotice
  /\ UNCHANGED <<role, dbEntries, dbDeleted, dbSubs, entries, loading, currentMonthSubmission,
                 filterMonth, form, bulkActionModal, statusChangeModal,
                 requestApprovalModal, req, deleting, fetchSent, lookups,
                 runsDone, ops, probe>>

\* ------------------------------------------------ status-change payloads
\* a key that the payload does not carry (undefined is dropped by JSON)
Undefined == "undefined"
\* new Date().toISOString()
Now == "now"
\* x || undefined
OrUndefined(x) == IF x = "" THEN Undefined ELSE x

\* C11 mutant: approverId and approvedAt are written for every new status
StatusPayloadAlwaysApprover(newStatus, message) ==
  [status |-> newStatus, statusDescription |-> OrUndefined(message),
   approverId |-> Me, approvedAt |-> Now]

\* the payload of confirmStatusChange
StatusPayload(newStatus, message) ==
  [status |-> newStatus, statusDescription |-> OrUndefined(message),
   approverId |-> IF newStatus = APPROVED \/ newStatus = REJECTED THEN Me ELSE Undefined,
   approvedAt |-> IF newStatus = APPROVED \/ newStatus = REJECTED THEN Now ELSE Undefined]

\* the payload of one call of a bulk approve or reject
BulkPayload(action, message) ==
  [status |-> IF action = "approve" THEN APPROVED ELSE REJECTED,
   statusDescription |-> OrUndefined(message),
   approverId |-> Me, approvedAt |-> Now]

\* Promise.all(Array.from(selectedEntries).map(id => api.patch(id, payload)))
BulkCalls(action, selected, message) ==
  {[id |-> i, payload |-> BulkPayload(action, message)] : i \in selected}

\* the backend merges a status payload into the entry: absent keys are kept
PatchStatus(old, payload) ==
  [old EXCEPT !.status = payload.status,
              !.approverId = IF payload.approverId = Undefined THEN @ ELSE payload.approverId]

\* ---------------------------------------------------------- bulk actions
\* C6 mutant: the confirm handler does not look for locked entries
lockedSelectedUnchecked == {}

\* the selected entries that the page holds as locked
lockedSelected == {i \in allVisibleEntries \cap selectedEntries : isEntryLocked(entries[i])}

\* the three buttons of the selection bar
OpenBulk(a) ==
  /\ PageInteractive
  /\ selectedEntries # {}
  /\ a \in {"approve", "reject", "delete"}
  /\ a # "delete" => isAdmin
  /\ IF a = "delete" /\ lockedSelected # {}
     THEN /\ notice' = Notice("bulk-open", NoId, "blocked", Cardinality(lockedSelected))
          /\ UNCHANGED bulkActionModal
     ELSE /\ bulkActionModal' = [bulkActionModal EXCEPT !.isOpen = TRUE, !.action = a]
          /\ notice' = NoNotice
  /\ UNCHANGED <<role, dbEntries, dbDeleted, dbSubs, entries, loading, currentMonthSubmission,
                 filterMonth, selectedEntries, form, statusChangeModal,
                 requestApprovalModal, req, deleting, fetchSent, lookups,
                 runsDone, ops, probe>>

CancelBulk ==
  /\ bulkActionModal.isOpen
  /\ bulkActionModal' = [bulkActionModal EXCEPT !.isOpen = FALSE, !.action = "none"]
  /\ notice' = NoNotice
  /\ UNCHANGED <<role, dbEntries, dbDeleted, dbSubs, entries, loading, currentMonthSubmission,
                 filterMonth, selectedEntries, form, statusChangeModal,
                 requestApprovalModal, req, deleting, fetchSent, lookups,
                 runsDone, ops, probe>>

\* what follows the awaited Promise.all when every call succeeded
BulkDone(b) == [b EXCEPT !.isOpen = FALSE, !.action = "none", !.call = "none",
                         !.todo = {}, !.awaiting = FALSE]

\* the confirm button of the bulk modal up to the await: one call per
\* selected id is issued; a bulk delete first re-checks the locks
ConfirmBulk ==
  /\ bulkActionModal.isOpen
  /\ bulkActionModal.todo = {} /\ ~bulkActionModal.awaiting
  /\ IF bulkActionModal.action = "delete" /\ lockedSelected # {}
     THEN /\ notice' = Notice("bulk", NoId, "blocked", Cardinality(lockedSelected))
          /\ bulkActionModal' = NoBulk
          /\ UNCHANGED <<selectedEntries, fetchSent, ops>>
     ELSE IF selectedEntries = {}
     THEN /\ UserRoom
          /\ bulkActionModal' = NoBulk
          /\ fetchSent' = fetchSent + 1
          /\ notice' = NoNotice
          /\ UNCHANGED <<selectedEntries, ops>>
     ELSE /\ WriteRoom
          /\ bulkActionModal' = [bulkActionModal EXCEPT !.call = bulkActionModal.action,
                                     !.todo = selectedEntries, !.awaiting = TRUE]
          /\ ops' = ops + 1
          /\ notice' = NoNotice
          /\ UNCHANGED <<selectedEntries, fetchSent>>
  /\ UNCHANGED <<role, dbEntries, dbDeleted, dbSubs, entries, loading, currentMonthSubmission,
                 filterMonth, form, statusChangeModal, requestApprovalModal, req,
                 deleting, lookups, runsDone, probe>>

\* the backend's effect of one call of a bulk action
BulkEffect(call, old) ==
  IF call = "delete" THEN NoEntry
  ELSE PatchStatus(old, BulkPayload(call, ""))

\* one call of the batch succeeds; the last success of an awaited batch
\* resumes the handler: selection cleared, modal closed, fetchData()
BulkCallOk(i) ==
  /\ i \in bulkActionModal.todo
  /\ dbEntries[i].present
  /\ dbEntries' = [dbEntries EXCEPT ![i] = BulkEffect(bulkActionModal.call, @)]
  /\ dbDeleted' = IF bulkActionModal.call = "delete" THEN dbDeleted \cup {i} ELSE dbDeleted
  /\ IF bulkActionModal.awaiting /\ bulkActionModal.todo = {i}
     THEN /\ bulkActionModal' = BulkDone(bulkActionModal)
          /\ selectedEntries' = {}
          /\ fetchSent' = fetchSent + 1
     ELSE /\ bulkActionModal' =
               [bulkActionModal EXCEPT !.todo = @ \ {i},
                  !.call = IF bulkActionModal.todo = {i} THEN "none" ELSE @]
          /\ UNCHANGED <<selectedEntries, fetchSent>>
  /\ notice' = NoNotice
  /\ UNCHANGED <<role, dbSubs, entries, loading, currentMonthSubmission, filterMonth,
                 form, statusChangeModal, requestApprovalModal, req, deleting, lookups, runsDone, ops, probe>>

\* one call of the batch fails; the first failure rejects Promise.all and
\* the catch block alerts, while the other calls stay in flight
BulkCallFail(i) ==
  /\ i \in bulkActionModal.todo
  /\ bulkActionModal' =
       [bulkActionModal EXCEPT !.todo = @ \ {i}, !.awaiting = FALSE,
          !.call = IF bulkActionModal.todo = {i} THEN "none" ELSE @]
  /\ notice' = IF bulkActionModal.awaiting THEN Notice("bulk", i, "error", 0) ELSE NoNotice
  /\ UNCHANGED <<role, dbEntries, dbDeleted, dbSubs, entries, loading, currentMonthSubmission,
                 filterMonth, selectedEntries, form, statusChangeModal,
                 requestApprovalModal, req, deleting, fetchSent, lookups,
                 runsDone, ops, probe>>

\* ------------------------------------------------- single status change
\* C10 mutant: the comparison with the current status is missing
handleStatusChangeAlways(i, newStatus) ==
  /\ PageInteractive
  /\ isAdmin
  /\ i \in allVisibleEntries
  /\ newStatus \in TimesheetStatus
  /\ statusChangeModal' = [statusChangeModal EXCEPT !.isOpen = TRUE, !.entry = i,
                                                     !.newStatus = newStatus]
  /\ notice' = NoNotice
  /\ UNCHANGED <<role, dbEntries, dbDeleted, dbSubs, entries, loading, currentMonthSubmission,
                 filterMonth, selectedEntries, form, bulkActionModal,
                 requestApprovalModal, req, deleting, fetchSent, lookups,
                 runsDone, ops, probe>>

handleStatusChange(i, newStatus) ==
  /\ PageInteractive
  /\ isAdmin
  /\ i \in allVisibleEntries
  /\ newStatus \in TimesheetStatus
  /\ IF entries[i].status = newStatus
     THEN /\ notice' = Notice("status", i, "noop", 0)
          /\ UNCHANGED statusChangeModal
     ELSE /\ statusChangeModal' = [statusChangeModal EXCEPT !.isOpen = TRUE, !.entry = i,
                                                             !.newStatus = newStatus]
          /\ notice' = NoNotice
  /\ UNCHANGED <<role, dbEntries, dbDeleted, dbSubs, entries, loading, currentMonthSubmission,
                 filterMonth, selectedEntries, form, bulkActionModal,
                 requestApprovalModal, req, deleting, fetchSent, lookups,
                 runsDone, ops, probe>>

\* confirmStatusChange up to the await
confirmStatusChange ==
  /\ statusChangeModal.isOpen
  /\ statusChangeModal.entry # NoId
  /\ statusChangeModal.callId = NoId
  /\ WriteRoom
  /\ statusChangeModal' = [statusChangeModal EXCEPT !.callId = statusChangeModal.entry,
                                                     !.callStatus = statusChangeModal.newStatus]
  /\ ops' = ops + 1
  /\ notice' = NoNotice
  /\ UNCHANGED <<role, dbEntries, dbDeleted, dbSubs, entries, loading, currentMonthSubmission,
                 filterMonth, selectedEntries, form, bulkActionModal,
                 requestApprovalModal, req, deleting, fetchSent, lookups,
                 runsDone, probe>>

\* PATCH with {status, statusDescription} and, for APPROVED or REJECTED,
\* {approverId, approvedAt}
StatusEffect(old, st) == PatchStatus(old, StatusPayload(st, ""))

StatusCallOk ==
  /\ statusChangeModal.callId # NoId
  /\ dbEntries[statusChangeModal.callId].present
  /\ dbEntries' = [dbEntries EXCEPT ![statusChangeModal.callId] =
                                       StatusEffect(@, statusChangeModal.callStatus)]
  /\ statusChangeModal' = NoStatus
  /\ fetchSent' = fetchSent + 1
  /\ notice' = NoNotice
  /\ UNCHANGED <<role, dbDeleted, dbSubs, entries, loading, currentMonthSubmission, filterMonth,
                 selectedEntries, form, bulkActionModal, requestApprovalModal, req,
                 deleting, lookups, runsDone, ops, probe>>

StatusCallFail ==
  /\ statusChangeModal.callId # NoId
  /\ statusChangeModal' = NoStatus
  /\ fetchSent' = fetchSent + 1
  /\ notice' = Notice("status", statusChangeModal.callId, "error", 0)
  /\ UNCHANGED <<role, dbEntries, dbDeleted, dbSubs, entries, loading, currentMonthSubmission,
                 filterMonth, selectedEntries, form, bulkActionModal,
                 requestApprovalModal, req, deleting, lookups, runsDone,
                 ops, probe>>

\* C23 mutant: the dialog is closed without a refetch
cancelStatusChangeNoRefetch ==
  /\ statusChangeModal.isOpen
  /\ UserRoom
  /\ statusChangeModal' = [statusChangeModal EXCEPT !.isOpen = FALSE, !.entry = NoId,
                                                     !.newStatus = PENDING]
  /\ notice' = NoNotice
  /\ UNCHANGED <<role, dbEntries, dbDeleted, dbSubs, entries, loading, currentMonthSubmission,
                 filterMonth, selectedEntries, form, bulkActionModal,
                 requestApprovalModal, req, deleting, fetchSent, lookups, runsDone,
                 ops, probe>>

cancelStatusChange ==
  /\ statusChangeModal.isOpen
  /\ UserRoom
  /\ statusChangeModal' = [statusChangeModal EXCEPT !.isOpen = FALSE, !.entry = NoId,
                                                     !.newStatus = PENDING]
  /\ fetchSent' = fetchSent + 1
  /\ notice' = NoNotice
  /\ UNCHANGED <<role, dbEntries, dbDeleted, dbSubs, entries, loading, currentMonthSubmission,
                 filterMonth, selectedEntries, form, bulkActionModal,
                 requestApprovalModal, req, deleting, lookups, runsDone,
                 ops, probe>>

\* ------------------------------------------------------ request approval
\* the "Solicitar Aprovacao" button: shown to a consultant when the visible
\* list is not empty, disabled while isMonthLocked
OpenRequestApproval ==
  /\ PageInteractive
  /\ isConsultant
  /\ allVisibleEntries # {}
  /\ ~isMonthLocked
  /\ requestApprovalModal' = TRUE
  /\ notice' = NoNotice
  /\ UNCHANGED <<role, dbEntries, dbDeleted, dbSubs, entries, loading, currentMonthSubmission,
                 filterMonth, selectedEntries, form, bulkActionModal, statusChangeModal,
                 req, deleting, fetchSent, lookups, runsDone, ops, probe>>

CancelRequestApproval ==
  /\ requestApprovalModal
  /\ requestApprovalModal' = FALSE
  /\ notice' = NoNotice
  /\ UNCHANGED <<role, dbEntries, dbDeleted, dbSubs, entries, loading, currentMonthSubmission,
                 filterMonth, selectedEntries, form, bulkActionModal, statusChangeModal,
                 req, deleting, fetchSent, lookups, runsDone, ops, probe>>

IdleSlots == {s \in ReqSlots : req[s].pc = "idle"}

\* handleRequestApproval up to its first await: the month and the entry
\* collection of the render that created the handler are captured, and the
\* by-user-month lookup is issued
handleRequestApproval ==
  /\ requestApprovalModal
  /\ IdleSlots # {}
  /\ WriteRoom
  /\ req' = [req EXCEPT ![MinOf(IdleSlots)] =
                [pc |-> "lookup", month |-> filterMonth, ids |-> monthEntries(filterMonth),
                 todo |-> {}, subId |-> NoId]]
  /\ ops' = ops + 1
  /\ notice' = NoNotice
  /\ UNCHANGED <<role, dbEntries, dbDeleted, dbSubs, entries, loading, currentMonthSubmission,
                 filterMonth, selectedEntries, form, bulkActionModal, statusChangeModal,
                 requestApprovalModal, deleting, fetchSent, lookups,
                 runsDone, probe>>

\* the catch block of handleRequestApproval: alert, nothing else
ReqCatch(s) ==
  /\ req' = [req EXCEPT ![s] = IdleReq]
  /\ notice' = Notice("request", NoId, "error", 0)
  /\ UNCHANGED <<requestApprovalModal, fetchSent, lookups, runsDone>>

\* the end of handleRequestApproval: alert, modal closed, fetchData(),
\* fetchCurrentMonthSubmission()
ReqFinish(s) ==
  /\ req' = [req EXCEPT ![s] = IdleReq]
  /\ requestApprovalModal' = FALSE
  /\ fetchSent' = fetchSent + 1
  /\ lookups' = lookups \cup {req[s].month}
  /\ runsDone' = [runsDone EXCEPT ![req[s].month] = IF @ < MaxRuns THEN @ + 1 ELSE @]
  /\ notice' = NoNotice

\* the answer of the lookup: a submission, 404 (none), or a failure that is
\* rethrown to the outer catch
ReqLookupAnswer(s, a) ==
  /\ req[s].pc = "lookup"
  /\ a \in LookupAnswers(Me, req[s].month)
  /\ IF a.st = "error"
     THEN ReqCatch(s)
     ELSE /\ req' = [req EXCEPT ![s].pc = "write", ![s].subId = a.sub.id]
          /\ notice' = NoNotice
          /\ UNCHANGED <<requestApprovalModal, fetchSent, lookups, runsDone>>
  /\ UNCHANGED <<role, dbEntries, dbDeleted, dbSubs, entries, loading, currentMonthSubmission,
                 filterMonth, selectedEntries, form, bulkActionModal, statusChangeModal,
                 deleting, ops, probe>>

ReqLookup(s) == \E a \in LookupAnswers(Me, req[s].month) : ReqLookupAnswer(s, a)

\* the submission is written: PATCH of the one found, POST of a new one
ReqWrite(s) ==
  /\ req[s].pc = "write"
  /\ LET submissionId == IF req[s].subId # NoId THEN req[s].subId ELSE MinOf(FreeSubIds) IN
       /\ req[s].subId = NoId => FreeSubIds # {}
       /\ dbSubs' = [dbSubs EXCEPT ![submissionId] =
                        IF req[s].subId # NoId THEN [@ EXCEPT !.status = "SUBMITTED"]
                        ELSE Sub(submissionId, Me, req[s].month, "SUBMITTED")]
       /\ IF req[s].ids = {}
          THEN ReqFinish(s)
          ELSE /\ req' = [req EXCEPT ![s].pc = "assoc", ![s].subId = submissionId,
                                     ![s].todo = req[s].ids]
               /\ notice' = NoNotice
               /\ UNCHANGED <<requestApprovalModal, fetchSent, lookups, runsDone>>
  /\ UNCHANGED <<role, dbEntries, dbDeleted, entries, loading, currentMonthSubmission, filterMonth,
                 selectedEntries, form, bulkActionModal, statusChangeModal, deleting, ops, probe>>

\* the write of the submission fails
ReqWriteFail(s) ==
  /\ req[s].pc = "write"
  /\ ReqCatch(s)
  /\ UNCHANGED <<role, dbEntries, dbDeleted, dbSubs, entries, loading, currentMonthSubmission,
                 filterMonth, selectedEntries, form, bulkActionModal, statusChangeModal,
                 deleting, ops, probe>>

\* PATCH /timesheet-entries/{id} with {submissionId}
AssocEffect(old, submissionId) == [old EXCEPT !.submissionId = submissionId]

\* one iteration of the association loop: PATCH {submissionId} on the next
\* entry of monthEntries; after the last one the handler finishes
ReqAssoc(s) ==
  /\ req[s].pc = "assoc"
  /\ LET i == MinOf(req[s].todo) IN
       /\ dbEntries[i].present
       /\ dbEntries' = [dbEntries EXCEPT ![i] = AssocEffect(@, req[s].subId)]
       /\ IF req[s].todo = {i}
          THEN ReqFinish(s)
          ELSE /\ req' = [req EXCEPT ![s].todo = @ \ {i}]
               /\ notice' = NoNotice
               /\ UNCHANGED <<requestApprovalModal, fetchSent, lookups, runsDone>>
  /\ UNCHANGED <<role, dbDeleted, dbSubs, entries, loading, currentMonthSubmission, filterMonth,
                 selectedEntries, form, bulkActionModal, statusChangeModal, deleting, ops, probe>>

\* a PATCH of the association loop fails: the loop is abandoned
ReqAssocFail(s) ==
  /\ req[s].pc = "assoc"
  /\ ReqCatch(s)
  /\ UNCHANGED <<role, dbEntries, dbDeleted, dbSubs, entries, loading, currentMonthSubmission,
                 filterMonth, selectedEntries, form, bulkActionModal, statusChangeModal,
                 deleting, ops, probe>>

\* ------------------------------------------------------------------ system
\* the steps every role of the page can take
NextShared ==
  \/ \E ok \in BOOLEAN : DeliverFetch(ok)
  \/ \E m \in Months : SelectMonth(m)
  \/ handleCreate
  \/ \E i \in EntryIds : handleEdit(i)
  \/ \E i \in EntryIds : handleDuplicate(i)
  \/ \E i \in EntryIds : handleDelete(i)
  \/ \E i \in EntryIds : DeleteOk(i)
  \/ \E i \in EntryIds : DeleteFail(i)
  \/ CloseForm
  \/ \E u \in Users, m \in Months, st \in TimesheetStatus : onSubmit(u, m, st)
  \/ SaveOk
  \/ SaveFail
  \/ \E i \in EntryIds, selected \in BOOLEAN : handleSelectEntry(i, selected)
  \/ handleSelectAllVisible
  \/ \E a \in {"approve", "reject", "delete"} : OpenBulk(a)
  \/ CancelBulk
  \/ ConfirmBulk
  \/ \E i \in EntryIds : BulkCallOk(i)
  \/ \E i \in EntryIds : BulkCallFail(i)

\* the month lock of a consultant: the lookup and the request-approval modal
NextMonthLock ==
  \/ \E m \in Months : DeliverLookup(m)
  \/ OpenRequestApproval
  \/ CancelRequestApproval

\* the run of handleRequestApproval after its start
NextRun ==
  \/ \E s \in ReqSlots : ReqLookup(s)
  \/ \E s \in ReqSlots : ReqWrite(s)
  \/ \E s \in ReqSlots : ReqWriteFail(s)
  \/ \E s \in ReqSlots : ReqAssoc(s)
  \/ \E s \in ReqSlots : ReqAssocFail(s)

\* the status select of the rows and its modal, rendered for an admin
NextStatus ==
  \/ \E i \in EntryIds, st \in TimesheetStatus : handleStatusChange(i, st)
  \/ confirmStatusChange
  \/ StatusCallOk
  \/ StatusCallFail
  \/ cancelStatusChange

NextConsultant == NextShared \/ NextMonthLock \/ handleRequestApproval \/ NextRun

NextAdmin == NextShared \/ NextStatus

SpecConsultant == InitConsultant /\ [][NextConsultant]_vars

SpecAdmin == InitAdmin /\ [][NextAdmin]_vars

\* ------------------------------------------- request approval, one at a time
\* A session in which the consultant only looks at the months and requests
\* approval, and confirms a request only when no earlier run is in progress.
InitSeq ==
  \E es \in [EntryIds -> {NoEntry} \cup {NewEntry(u, m, PENDING) : u \in Users, m \in Months}] :
    InitWith(CONSULTANT, es, NoSubs)

NoRun == \A s \in ReqSlots : req[s].pc = "idle"

NextSeq ==
  \/ \E ok \in BOOLEAN : DeliverFetch(ok)
  \/ \E m \in Months : SelectMonth(m)
  \/ NextMonthLock
  \/ NoRun /\ handleRequestApproval
  \/ NextRun

SpecSeq == InitSeq /\ [][NextSeq]_vars

\* ------------------------------------------------- the lock policy alone
\* isEntryLocked and isMonthLocked applied to every role, submissionId,
\* entry status and held submission
ProbeInputs ==
  [role : UserRole, submissionId : {NoId, EmptyId} \cup SubIds, status : TimesheetStatus,
   sub : {NoSub} \cup {Sub(1, Me, CurrentMonth, st) : st \in SubmissionStatus},
   applied : {FALSE}, entryLocked : {FALSE}, monthLocked : {FALSE}]

InitLock ==
  /\ probe \in ProbeInputs
  /\ role = probe.role
  /\ dbEntries = EmptyEntries
  /\ dbDeleted = {}
  /\ dbSubs = NoSubs
  /\ entries = EmptyEntries
  /\ loading = TRUE
  /\ currentMonthSubmission = probe.sub
  /\ filterMonth = CurrentMonth
  /\ selectedEntries = {}
  /\ form = NoForm
  /\ bulkActionModal = NoBulk
  /\ statusChangeModal = NoStatus
  /\ requestApprovalModal = FALSE
  /\ req = [s \in ReqSlots |-> IdleReq]
  /\ deleting = {}
  /\ fetchSent = 0
  /\ lookups = {}
  /\ runsDone = [m \in Months |-> 0]
  /\ notice = NoNotice
  /\ ops = 0

ProbeEntry == [NewEntry(Me, CurrentMonth, probe.status) EXCEPT !.submissionId = probe.submissionId]

ApplyLock ==
  /\ ~probe.applied
  /\ probe' = [probe EXCEPT !.applied = TRUE,
                            !.entryLocked = isEntryLocked(ProbeEntry),
                            !.monthLocked = isMonthLocked]
  /\ UNCHANGED <<role, dbEntries, dbDeleted, dbSubs, entries, loading, currentMonthSubmission,
                 filterMonth, selectedEntries, form, bulkActionModal, statusChangeModal,
                 requestApprovalModal, req, deleting, fetchSent, lookups,
                 runsDone, notice, ops>>

NextLock == ApplyLock

SpecLock == InitLock /\ [][NextLock]_vars

\* ------------------------------------------------- pure functions alone
\* the page at rest for a user of role r: nothing loaded, nothing in flight;
\* the specifications below apply one function of the page to inputs held
\* in probe
AtRest(r) ==
  /\ role = r
  /\ dbEntries = EmptyEntries
  /\ dbDeleted = {}
  /\ dbSubs = NoSubs
  /\ entries = EmptyEntries
  /\ loading = TRUE
  /\ currentMonthSubmission = NoSub
  /\ filterMonth = CurrentMonth
  /\ selectedEntries = {}
  /\ form = NoForm
  /\ bulkActionModal = NoBulk
  /\ statusChangeModal = NoStatus
  /\ requestApprovalModal = FALSE
  /\ req = [s \in ReqSlots |-> IdleReq]
  /\ deleting = {}
  /\ fetchSent = 0
  /\ lookups = {}
  /\ runsDone = [m \in Months |-> 0]
  /\ notice = NoNotice
  /\ ops = 0

RestUnchanged ==
  UNCHANGED <<role, dbEntries, dbDeleted, dbSubs, entries, loading, currentMonthSubmission,
              filterMonth, selectedEntries, form, bulkActionModal, statusChangeModal,
              requestApprovalModal, req, deleting, fetchSent, lookups,
              runsDone, notice, ops>>

\* ---- the payloads of the status-change calls
Messages == {"", "ok"}

PayloadInputs ==
  [entry : EntryIds, newStatus : TimesheetStatus, message : Messages,
   action : {"approve", "reject"}, selected : SUBSET EntryIds,
   singleDone : {FALSE}, single : {StatusPayload(PENDING, "")},
   bulkDone : {FALSE}, bulk : {{}}]

InitPayload == probe \in PayloadInputs /\ AtRest(ADMIN)

\* confirmStatusChange builds its payload for statusChangeModal
ApplyStatusPayload ==
  /\ ~probe.singleDone
  /\ probe' = [probe EXCEPT !.singleDone = TRUE,
                            !.single = StatusPayload(probe.newStatus, probe.message)]
  /\ RestUnchanged

\* the bulk confirm handler builds its calls for selectedEntries
ApplyBulkPayload ==
  /\ ~probe.bulkDone
  /\ probe' = [probe EXCEPT !.bulkDone = TRUE,
                            !.bulk = BulkCalls(probe.action, probe.selected, probe.message)]
  /\ RestUnchanged

NextPayload == ApplyStatusPayload \/ ApplyBulkPayload

SpecPayload == InitPayload /\ [][NextPayload]_vars

\* ---- the persisted filters and the visible rows
\* days of a month, times of day, projects
Days == {1, 2}
Times == {0, 1}
Projects == {"p1", "p2"}

\* entry.date is an ISO timestamp: a calendar date and a time of day
Dates == [month : Months, day : Days, time : Times]
\* date.split('T')[0], the YYYY-MM-DD part, as a number
DateKey(date) == date.month * 100 + date.day
DateKeys == {DateKey(d) : d \in Dates}
\* '' as a month key and as a date key
NoMonth == 0
NoDate == 0
\* a key that is missing from the stored filters (number-valued fields)
MissingKey == 0 - 1

\* the entries the filters are applied to: one of every kind
Rows == [userId : Users, date : Dates, projectId : Projects, status : TimesheetStatus]

\* filters.filterMonth || getCurrentMonth()
ActiveMonth(month) == IF month = NoMonth THEN CurrentMonth ELSE month

\* C14 mutant: the optional filters are applied whatever the role
filteredAnyRole(r, f, month, rows) ==
  {e \in rows :
     /\ e.date.month = ActiveMonth(month)
     /\ f.filterUser # "" => e.userId = f.filterUser
     /\ f.filterProject # "" => e.projectId = f.filterProject
     /\ f.filterStatus # "" => e.status = f.filterStatus
     /\ f.filterDate # NoDate => DateKey(e.date) = f.filterDate
     /\ r = CONSULTANT => e.userId = Me}

\* the filtering part of filteredAndGroupedEntries
filtered(r, f, month, rows) ==
  LET inMonth == {e \in rows : e.date.month = ActiveMonth(month)} IN
  IF r = ADMIN
  THEN {e \in inMonth :
          /\ f.filterUser # "" => e.userId = f.filterUser
          /\ f.filterProject # "" => e.projectId = f.filterProject
          /\ f.filterStatus # "" => e.status = f.filterStatus
          /\ f.filterDate # NoDate => DateKey(e.date) = f.filterDate}
  ELSE IF r = CONSULTANT
  THEN {e \in inMonth : e.userId = Me}
  ELSE inMonth

\* the initial filters of the page
initialFilters ==
  [filterUser |-> "", filterProject |-> "", filterStatus |-> "",
   filterDate |-> NoDate, filterMonth |-> CurrentMonth]

\* what localStorage may hold under filters_timesheetEntries: any key may
\* be missing, filterMonth may be ''
StoredFilters ==
  [filterUser : {Undefined, "u2"}, filterProject : {Undefined, "p1"},
   filterStatus : {Undefined, APPROVED}, filterDate : {MissingKey, 101},
   filterMonth : {MissingKey, NoMonth} \cup Months]

\* { ...initialFilters, ...parsed }
MergeFilters(initial, parsed) ==
  [filterUser |-> IF parsed.filterUser = Undefined THEN initial.filterUser ELSE parsed.filterUser,
   filterProject |-> IF parsed.filterProject = Undefined THEN initial.filterProject
                     ELSE parsed.filterProject,
   filterStatus |-> IF parsed.filterStatus = Undefined THEN initial.filterStatus
                    ELSE parsed.filterStatus,
   filterDate |-> IF parsed.filterDate = MissingKey THEN initial.filterDate ELSE parsed.filterDate,
   filterMonth |-> IF parsed.filterMonth = MissingKey THEN initial.filterMonth
                   ELSE parsed.filterMonth]

\* the optional filters are kept in probe, the month in filterMonth
OptionalOf(f) ==
  [filterUser |-> f.filterUser, filterProject |-> f.filterProject,
   filterStatus |-> f.filterStatus, filterDate |-> f.filterDate]

FiltersRest ==
  /\ dbEntries = EmptyEntries
  /\ dbDeleted = {}
  /\ dbSubs = NoSubs
  /\ entries = EmptyEntries
  /\ loading = TRUE
  /\ currentMonthSubmission = NoSub
  /\ selectedEntries = {}
  /\ form = NoForm
  /\ bulkActionModal = NoBulk
  /\ statusChangeModal = NoStatus
  /\ requestApprovalModal = FALSE
  /\ req = [s \in ReqSlots |-> IdleReq]
  /\ deleting = {}
  /\ fetchSent = 0
  /\ lookups = {}
  /\ runsDone = [m \in Months |-> 0]
  /\ notice = NoNotice
  /\ ops = 0

\* useFilters' first state: the stored filters merged over the initial ones
InitFilters ==
  /\ role \in PageRoles
  /\ \E parsed \in StoredFilters :
       /\ probe = OptionalOf(MergeFilters(initialFilters, parsed))
       /\ filterMonth = MergeFilters(initialFilters, parsed).filterMonth
  /\ FiltersRest

FiltersUnchanged ==
  UNCHANGED <<role, dbEntries, dbDeleted, dbSubs, entries, loading, currentMonthSubmission,
              selectedEntries, form, bulkActionModal, statusChangeModal,
              requestApprovalModal, req, deleting, fetchSent, lookups,
              runsDone, notice, ops>>

\* the effect that restores an empty filterMonth; it runs after the render
\* that shows the empty month, before any event is handled
EnsureFilterMonth ==
  /\ filterMonth = NoMonth
  /\ filterMonth' = CurrentMonth
  /\ UNCHANGED probe
  /\ FiltersUnchanged

\* C16 mutant: the month button toggles the active month off
SelectMonthButtonToggle(m) ==
  /\ filterMonth # NoMonth
  /\ m \in {e.date.month : e \in Rows}
  /\ filterMonth' = IF filterMonth = m THEN NoMonth ELSE m
  /\ probe' = [probe EXCEPT !.filterDate = NoDate]
  /\ FiltersUnchanged

\* a button of the month timeline (the rows hold entries of every month)
SelectMonthButton(m) ==
  /\ filterMonth # NoMonth
  /\ m \in {e.date.month : e \in Rows}
  /\ filterMonth' = m
  /\ probe' = [probe EXCEPT !.filterDate = NoDate]
  /\ FiltersUnchanged

\* the four inputs of the admin's filter card
SetFilterUser(v) ==
  /\ filterMonth # NoMonth /\ isAdmin
  /\ probe' = [probe EXCEPT !.filterUser = v]
  /\ UNCHANGED filterMonth
  /\ FiltersUnchanged

SetFilterProject(v) ==
  /\ filterMonth # NoMonth /\ isAdmin
  /\ probe' = [probe EXCEPT !.filterProject = v]
  /\ UNCHANGED filterMonth
  /\ FiltersUnchanged

SetFilterStatus(v) ==
  /\ filterMonth # NoMonth /\ isAdmin
  /\ probe' = [probe EXCEPT !.filterStatus = v]
  /\ UNCHANGED filterMonth
  /\ FiltersUnchanged

SetFilterDate(v) ==
  /\ filterMonth # NoMonth /\ isAdmin
  /\ probe' = [probe EXCEPT !.filterDate = v]
  /\ UNCHANGED filterMonth
  /\ FiltersUnchanged

\* the Limpar Filtros button, shown while some filter differs from the default
ClearFilters ==
  /\ filterMonth # NoMonth /\ isAdmin
  /\ \/ probe.filterUser # "" \/ probe.filterProject # "" \/ probe.filterStatus # ""
     \/ probe.filterDate # NoDate \/ filterMonth # CurrentMonth
  /\ probe' = OptionalOf(initialFilters)
  /\ filterMonth' = CurrentMonth
  /\ FiltersUnchanged

FilterUserAction ==
  \/ \E m \in Months : SelectMonthButton(m)
  \/ \E v \in {""} \cup Users : SetFilterUser(v)
  \/ \E v \in {""} \cup Projects : SetFilterProject(v)
  \/ \E v \in {""} \cup TimesheetStatus : SetFilterStatus(v)
  \/ \E v \in {NoDate} \cup DateKeys : SetFilterDate(v)
  \/ ClearFilters

NextFilters == EnsureFilterMonth \/ FilterUserAction

SpecFilters == InitFilters /\ [][NextFilters]_vars

\* ---- the time encoder
\* a string is a sequence of characters
DigitChars == <<"0", "1", "2", "3", "4", "5", "6", "7", "8", "9">>
Digits == {DigitChars[k] : k \in 1..10}
IsDigit(c) == c \in Digits
\* the value of one digit
DigitValue(c) == (CHOOSE k \in 1..10 : DigitChars[k] = c) - 1

\* parseInt(digits, 10) for a string of digits
RECURSIVE parseInt(_)
parseInt(str) ==
  IF Len(str) = 0 THEN 0
  ELSE parseInt(SubSeq(str, 1, Len(str) - 1)) * 10 + DigitValue(str[Len(str)])

\* n.toString() for n >= 0
RECURSIVE numberToString(_)
numberToString(n) ==
  IF n < 10 THEN <<DigitChars[n + 1]>>
  ELSE numberToString(n \div 10) \o <<DigitChars[(n % 10) + 1]>>

\* C17 mutant: no zero padding
padStart2None(str) == str

\* str.padStart(2, '0')
padStart2(str) == IF Len(str) < 2 THEN <<"0">> \o str ELSE str

\* C18 mutant: the digits are not limited to four
applyTimeMaskUnlimited(value) ==
  LET numbers == SelectSeq(value, IsDigit) IN
  IF Len(numbers) = 0 THEN <<>>
  ELSE IF Len(numbers) <= 2 THEN numbers
  ELSE SubSeq(numbers, 1, 2) \o <<":">> \o SubSeq(numbers, 3, Len(numbers))

applyTimeMask(value) ==
  LET numbers == SelectSeq(value, IsDigit)
      limited == SubSeq(numbers, 1, IF Len(numbers) < 4 THEN Len(numbers) ELSE 4)
  IN IF Len(limited) = 0 THEN <<>>
     ELSE IF Len(limited) <= 2 THEN limited
     ELSE SubSeq(limited, 1, 2) \o <<":">> \o SubSeq(limited, 3, Len(limited))

\* str.match(/^(\d{1,2}):(\d{2})$/)
timeMatch(str) ==
  /\ Len(str) \in {4, 5}
  /\ str[Len(str) - 2] = ":"
  /\ \A k \in 1..Len(str) : k # Len(str) - 2 => IsDigit(str[k])
\* the two groups of the match
matchHours(str) == parseInt(SubSeq(str, 1, Len(str) - 3))
matchMinutes(str) == parseInt(SubSeq(str, Len(str) - 1, Len(str)))

\* a number of hours: the exact value in sixtieths of an hour, and whether
\* the double that holds it lies just below that value (a sum of quotients
\* such as 20/60 + 100/60 does; hours + minutes / 60 never rounds across a
\* minute, so a converted string is held as its exact value)
Hours(n, b) == [sixtieths |-> n, below |-> b]

timeToDecimal(time) ==
  IF ~timeMatch(time) THEN Hours(0, FALSE)
  ELSE IF matchHours(time) > 23 \/ matchMinutes(time) > 59 THEN Hours(0, FALSE)
  ELSE Hours(matchHours(time) * 60 + matchMinutes(time), FALSE)

decimalToTime(decimal) ==
  LET hours == IF decimal.below /\ decimal.sixtieths % 60 = 0
               THEN (decimal.sixtieths \div 60) - 1
               ELSE decimal.sixtieths \div 60
      minutes == decimal.sixtieths - hours * 60
  IN padStart2(numberToString(hours)) \o <<":">> \o padStart2(numberToString(minutes))

\* C19 mutant: a duration of zero passes
hoursValidZeroToo(val) ==
  /\ Len(val) >= 1
  /\ timeMatch(val)
  /\ matchHours(val) >= 0 /\ matchHours(val) <= 23
  /\ matchMinutes(val) >= 0 /\ matchMinutes(val) <= 59

\* the validator of the hours field of the form
hoursValid(val) ==
  /\ Len(val) >= 1
  /\ timeMatch(val)
  /\ matchHours(val) >= 0 /\ matchHours(val) <= 23
  /\ matchMinutes(val) >= 0 /\ matchMinutes(val) <= 59
  /\ (matchHours(val) > 0 \/ matchMinutes(val) > 0)

\* the longest keystroke input
MaxKeys == 6
\* what the keyboard may leave in the field
KeyChars == {"0", "1", "7", ":", "x"}
KeyInputs == UNION {[1..n -> KeyChars] : n \in 0..MaxKeys}
\* every digits:digits string with one or two digits of hours
ClockInputs ==
  {<<a, b, ":", c, d>> : a \in Digits, b \in Digits, c \in Digits, d \in Digits}
    \cup {<<b, ":", c, d>> : b \in Digits, c \in Digits, d \in Digits}

NoTime ==
  [input |-> <<>>, op |-> "none", masked |-> <<>>, accepted |-> FALSE,
   decimal |-> Hours(0, FALSE), shown |-> <<>>]

InitTime ==
  /\ \E str \in KeyInputs \cup ClockInputs : probe = [NoTime EXCEPT !.input = str]
  /\ AtRest(ADMIN)

\* onChange of the hours input
MaskInput ==
  /\ probe.op = "none"
  /\ probe' = [probe EXCEPT !.op = "mask", !.masked = applyTimeMask(probe.input)]
  /\ RestUnchanged

\* the form is submitted: the validator runs, and onSubmit converts the
\* hours of a form that passed
ValidateHours ==
  /\ probe.op = "none"
  /\ probe' = [probe EXCEPT !.op = "validate", !.accepted = hoursValid(probe.input),
                  !.decimal = IF hoursValid(probe.input) THEN timeToDecimal(probe.input) ELSE @]
  /\ RestUnchanged

\* hours are stored, and shown again by handleEdit and the hours column
ConvertHours ==
  /\ probe.op = "none"
  /\ probe' = [probe EXCEPT !.op = "convert", !.decimal = timeToDecimal(probe.input),
                  !.shown = decimalToTime(timeToDecimal(probe.input))]
  /\ RestUnchanged

NextTime == MaskInput \/ ValidateHours \/ ConvertHours

SpecTime == InitTime /\ [][NextTime]_vars

\* ---- the grouped view
\* the longest list of filtered entries
MaxRows == 3
\* creation times, and durations in minutes
CreatedAts == {1, 2}
Durations == {20, 100}

\* the filtered entries: all of the active month, in the order of the fetch
DayEntries ==
  [date : {d \in Dates : d.month = CurrentMonth}, createdAt : CreatedAts,
   hours : {Hours(n, FALSE) : n \in Durations}]
FilteredLists == UNION {[1..n -> DayEntries] : n \in 0..MaxRows}

\* the entries of a list with their ids
WithIds(list) ==
  [k \in 1..Len(list) |->
     [id |-> k, date |-> list[k].date, createdAt |-> list[k].createdAt,
      hours |-> list[k].hours]]

\* C15 mutant: the whole timestamp is the key of a group
dateKeyWithTime(entry) == DateKey(entry.date) * 10 + entry.date.time

\* entry.date.split('T')[0]
dateKeyOf(entry) == DateKey(entry.date)

\* Object.keys(grouped).sort((a, b) => new Date(b) - new Date(a))
RECURSIVE sortKeysDesc(_)
sortKeysDesc(keys) ==
  IF keys = {} THEN <<>>
  ELSE LET latest == CHOOSE a \in keys : \A b \in keys : b <= a
       IN <<latest>> \o sortKeysDesc(keys \ {latest})

\* a list without its k-th element
Without(list, k) == SubSeq(list, 1, k - 1) \o SubSeq(list, k + 1, Len(list))

\* grouped[date].sort((a, b) => new Date(b.createdAt) - new Date(a.createdAt)),
\* a stable sort: entries created at the same time keep their order
RECURSIVE sortByCreatedDesc(_)
sortByCreatedDesc(list) ==
  IF Len(list) = 0 THEN <<>>
  ELSE LET k == CHOOSE i \in 1..Len(list) :
                  /\ \A j \in 1..Len(list) : list[j].createdAt <= list[i].createdAt
                  /\ \A j \in 1..(i - 1) : list[j].createdAt < list[i].createdAt
       IN <<list[k]>> \o sortByCreatedDesc(Without(list, k))

\* entries.reduce((sum, e) => sum + e.hours, 0); an addition of two
\* doubles is rounded, and rounded marks a sum that fell below its value
RECURSIVE sumHours(_, _)
sumHours(list, rounded) ==
  IF Len(list) = 0 THEN Hours(0, FALSE)
  ELSE Hours(sumHours(Without(list, Len(list)), rounded).sixtieths
               + list[Len(list)].hours.sixtieths,
             rounded /\ Len(list) >= 2)

sumHoursToTime(list, rounded) == decimalToTime(sumHours(list, rounded))

\* the grouping part of filteredAndGroupedEntries, and the header of a group
grouped(list, rounded) ==
  LET keys == sortKeysDesc({dateKeyOf(list[k]) : k \in 1..Len(list)}) IN
  [g \in 1..Len(keys) |->
     LET dayEntries == sortByCreatedDesc(SelectSeq(list, LAMBDA e : dateKeyOf(e) = keys[g])) IN
     [date |-> keys[g], entries |-> dayEntries, count |-> Len(dayEntries),
      total |-> sumHoursToTime(dayEntries, rounded)]]

NoGroups == [list |-> <<>>, op |-> "none", groups |-> <<>>]

InitGroup ==
  /\ \E list \in FilteredLists : probe = [NoGroups EXCEPT !.list = WithIds(list)]
  /\ AtRest(ADMIN)

\* the list is rendered
GroupEntries ==
  /\ probe.op = "none"
  /\ \E rounded \in BOOLEAN :
       probe' = [probe EXCEPT !.op = "group", !.groups = grouped(probe.list, rounded)]
  /\ RestUnchanged

NextGroup == GroupEntries

SpecGroup == InitGroup /\ [][NextGroup]_vars

\* ---- the writes of the page applied to one entry
\* any stored entry: with or without a submission, decided or not
StoredEntries ==
  {[NewEntry(u, m, st) EXCEPT !.submissionId = sub, !.approverId = a] :
     u \in Users, m \in Months, st \in TimesheetStatus,
     sub \in {NoId} \cup SubIds, a \in {NoUser, Me}}

NoWrite == [entry |-> NoEntry, op |-> "none", result |-> NoEntry, created |-> NoEntry]

InitWrite ==
  /\ \E e \in StoredEntries : probe = [NoWrite EXCEPT !.entry = e, !.result = e]
  /\ AtRest(ADMIN)

\* the form saves an edit of the entry
WriteForm(u, m, st) ==
  /\ probe.op = "none"
  /\ probe' = [probe EXCEPT !.op = "form",
                            !.result = PatchForm(probe.entry, NewEntry(u, m, st))]
  /\ RestUnchanged

\* the form saves a duplicate of the entry: a POST, the entry is not written
WriteDuplicate ==
  /\ probe.op = "none"
  /\ probe' = [probe EXCEPT !.op = "duplicate",
                 !.created = NewEntry(probe.entry.userId, probe.entry.month, PENDING)]
  /\ RestUnchanged

\* a single status change of the entry
WriteStatus(st) ==
  /\ probe.op = "none"
  /\ probe' = [probe EXCEPT !.op = "status", !.result = StatusEffect(probe.entry, st)]
  /\ RestUnchanged

\* a bulk approve or reject that includes the entry
WriteBulk(a) ==
  /\ probe.op = "none"
  /\ a \in {"approve", "reject"}
  /\ probe' = [probe EXCEPT !.op = "bulk", !.result = BulkEffect(a, probe.entry)]
  /\ RestUnchanged

\* request approval associates the entry with a submission
WriteAssoc(sub) ==
  /\ probe.op = "none"
  /\ probe' = [probe EXCEPT !.op = "assoc", !.result = AssocEffect(probe.entry, sub)]
  /\ RestUnchanged

NextWrite ==
  \/ \E u \in Users, m \in Months, st \in TimesheetStatus : WriteForm(u, m, st)
  \/ WriteDuplicate
  \/ \E st \in TimesheetStatus : WriteStatus(st)
  \/ \E a \in {"approve", "reject"} : WriteBulk(a)
  \/ \E sub \in SubIds : WriteAssoc(sub)

SpecWrite == InitWrite /\ [][NextWrite]_vars

\* ---- select all, for the page and for one date group
\* the visible entries: each on a day, associated with a submission or not
VisibleRows == [1..MaxRows -> [day : Days, submissionId : {NoId} \cup SubIds]]

\* C26 mutant: locked entries are selectable
selectableOfAll(r, rows, ids) == ids

\* ids of the entries among ids that are not locked
selectableOf(r, rows, ids) == {i \in ids : ~isEntryLockedFor(r, rows[i])}

\* onSelectAll of the DataTable of one date group
groupSelectResult(dayEntryIds, selected, checked) ==
  IF checked THEN selected \cup dayEntryIds ELSE selected \ dayEntryIds

NoSelect == [rows |-> <<>>, before |-> {}, after |-> {}, op |-> "none", day |-> 0,
             checked |-> FALSE]

InitSelect ==
  /\ \E r \in {CONSULTANT, ADMIN}, rows \in VisibleRows, sel \in SUBSET (1..MaxRows) :
       /\ probe = [NoSelect EXCEPT !.rows = rows, !.before = sel, !.after = sel]
       /\ AtRest(r)

\* the Selecionar Todos button
ApplySelectAllVisible ==
  /\ probe.op = "none"
  /\ probe' = [probe EXCEPT !.op = "all",
                 !.after = selectAllResult(selectableOf(role, probe.rows, DOMAIN probe.rows),
                                           probe.before)]
  /\ RestUnchanged

\* the header checkbox of the table of one date group
ApplyGroupSelectAll(day, checked) ==
  /\ probe.op = "none"
  /\ day \in {probe.rows[i].day : i \in DOMAIN probe.rows}
  /\ LET dayEntries == {i \in DOMAIN probe.rows : probe.rows[i].day = day} IN
       probe' = [probe EXCEPT !.op = "group", !.day = day, !.checked = checked,
                   !.after = groupSelectResult(selectableOf(role, probe.rows, dayEntries),
                                               probe.before, checked)]
  /\ RestUnchanged

NextSelect ==
  \/ ApplySelectAllVisible
  \/ \E day \in Days, checked \in BOOLEAN : ApplyGroupSelectAll(day, checked)

SpecSelect == InitSelect /\ [][NextSelect]_vars

\* ---- refetches whose responses arrive in any order
\* fetchSent counts the GET /timesheet-entries requests that the backend has
\* not answered yet; probe holds the answers on their way to the page, each
\* with the entries that the backend held when it answered, and whether a
\* fetch has failed
NoRace == [responses |-> <<>>, failed |-> FALSE]

InitRace ==
  /\ role = ADMIN
  /\ \E e \in {NoEntry, NewEntry("u2", CurrentMonth, PENDING)} : dbEntries = TwoEntries(e)
  /\ dbDeleted = {}
  /\ dbSubs = NoSubs
  /\ entries = EmptyEntries
  /\ loading = TRUE
  /\ currentMonthSubmission = NoSub
  /\ filterMonth = CurrentMonth
  /\ selectedEntries = {}
  /\ form = NoForm
  /\ bulkActionModal = NoBulk
  /\ statusChangeModal = NoStatus
  /\ requestApprovalModal = FALSE
  /\ req = [s \in ReqSlots |-> IdleReq]
  /\ deleting = {}
  /\ fetchSent = 1
  /\ lookups = {}
  /\ runsDone = [m \in Months |-> 0]
  /\ notice = NoNotice
  /\ ops = 0
  /\ probe = NoRace

RaceUnchanged ==
  UNCHANGED <<role, dbDeleted, dbSubs, currentMonthSubmission, filterMonth, selectedEntries,
              form, bulkActionModal, statusChangeModal, requestApprovalModal, req,
              deleting, lookups, runsDone, notice>>

\* fetches that have not completed
FetchesInFlight == fetchSent + Len(probe.responses)

\* cancelStatusChange: fetchData() with no write before it
RaceCancel ==
  /\ FetchesInFlight < MaxInFlight
  /\ fetchSent' = fetchSent + 1
  /\ UNCHANGED <<dbEntries, entries, loading, ops, probe>>
  /\ RaceUnchanged

\* a status change is persisted and confirmStatusChange goes on to
\* fetchData(), which is not awaited
RaceWrite(i, st) ==
  /\ FetchesInFlight < MaxInFlight
  /\ ops < MaxOps
  /\ dbEntries[i].present /\ dbEntries[i].status # st
  /\ dbEntries' = [dbEntries EXCEPT ![i] = StatusEffect(@, st)]
  /\ fetchSent' = fetchSent + 1
  /\ ops' = ops + 1
  /\ UNCHANGED <<entries, loading, probe>>
  /\ RaceUnchanged

\* the backend answers one GET with the entries it holds
ServeFetch ==
  /\ fetchSent > 0
  /\ fetchSent' = fetchSent - 1
  /\ probe' = [probe EXCEPT !.responses = Append(@, dbEntries)]
  /\ UNCHANGED <<dbEntries, entries, loading, ops>>
  /\ RaceUnchanged

\* one answer reaches the page, whichever: setEntries, setLoading(false)
ArriveFetch(k) ==
  /\ k \in 1..Len(probe.responses)
  /\ entries' = probe.responses[k]
  /\ loading' = FALSE
  /\ probe' = [probe EXCEPT !.responses = Without(@, k)]
  /\ UNCHANGED <<dbEntries, fetchSent, ops>>
  /\ RaceUnchanged

\* one answer is lost: the catch block logs, setLoading(false)
FailFetch(k) ==
  /\ k \in 1..Len(probe.responses)
  /\ loading' = FALSE
  /\ probe' = [probe EXCEPT !.responses = Without(@, k), !.failed = TRUE]
  /\ UNCHANGED <<dbEntries, entries, fetchSent, ops>>
  /\ RaceUnchanged

NextRace ==
  \/ RaceCancel
  \/ \E i \in EntryIds, st \in TimesheetStatus : RaceWrite(i, st)
  \/ ServeFetch
  \/ \E k \in 1..MaxInFlight : ArriveFetch(k)
  \/ \E k \in 1..MaxInFlight : FailFetch(k)

SpecRace == InitRace /\ [][NextRace]_vars

\* ---- submission lookups while the consultant switches months
\* the submission that the backend holds for the consultant and month m, if any
SubmissionChoices(m) == {NoSub} \cup {Sub(m, Me, m, st) : st \in SubmissionStatus}

\* The consultant has an entry in each of the two months, and for each month
\* possibly a submission.  The page has just been mounted: the fetch and the
\* lookup for the current month are under way.
InitLookup ==
  \E a \in SubmissionChoices(1), b \in SubmissionChoices(2) :
    InitWith(CONSULTANT,
             [i \in EntryIds |-> IF i = 1 THEN NewEntry(Me, 1, PENDING)
                                 ELSE IF i = 2 THEN NewEntry(Me, 2, PENDING)
                                 ELSE NoEntry],
             [i \in SubIds |-> IF i = 1 THEN a ELSE IF i = 2 THEN b ELSE NoSub])

NextLookup ==
  \/ \E ok \in BOOLEAN : DeliverFetch(ok)
  \/ \E m \in Months : SelectMonth(m)
  \/ \E m \in Months : DeliverLookup(m)

SpecLookup == InitLookup /\ [][NextLookup]_vars

\* ------------------------------------------------------------------ claims
\* the state of the page and of the backend: everything but the bookkeeping
\* of the model (notice, runsDone, ops, probe)
pageVars == <<role, dbEntries, dbDeleted, dbSubs, entries, loading, currentMonthSubmission,
              filterMonth, selectedEntries, form, bulkActionModal, statusChangeModal,
              requestApprovalModal, req, deleting, fetchSent, lookups>>

\* the step in which run s of handleRequestApproval reaches its end
RunSucceeds(s) ==
  /\ req[s].pc # "idle"
  /\ req'[s].pc = "idle"
  /\ notice'.kind # "error"

\* C1: when request approval is run for a month for which an earlier run has
\* completed, and the runs do not overlap, then at the end of the later run
\* the backend holds exactly one submission of the user for that month, and
\* every entry of the user in that month references it.
C1_SecondRunUpdates ==
  [][\A s \in ReqSlots :
       (RunSucceeds(s) /\ runsDone[req[s].month] >= 1)
       => LET m == req[s].month
              found == {i \in SubIds : dbSubs'[i].present /\ dbSubs'[i].userId = Me
                                         /\ dbSubs'[i].month = m}
          IN /\ Cardinality(found) = 1
             /\ found = {req[s].subId}
             /\ \A i \in EntryIds :
                  (dbEntries'[i].present /\ dbEntries'[i].userId = Me
                     /\ dbEntries'[i].month = m)
                  => dbEntries'[i].submissionId = req[s].subId]_vars

\* two runs for the current month have completed, and its entries are associated
C1_Witness ==
  /\ runsDone[CurrentMonth] = 2
  /\ NoRun
  /\ \E i \in SubsOf(Me, CurrentMonth) : dbEntries[1].submissionId = i

\* C2: the backend never holds two submissions of one user for one month.
C2_OneSubmissionPerMonth ==
  \A u \in Users, m \in Months : Cardinality(SubsOf(u, m)) <= 1

\* the backend's submission of the acting user for the active month locks it
MonthLockedInDb ==
  \E i \in SubsOf(Me, filterMonth) : dbSubs[i].status \in LockingStatuses

\* C3: while the submission of the acting consultant for the active month is
\* in a locking status, no run of request approval is started.
C3_LockedMonthRefused ==
  [][(isConsultant /\ MonthLockedInDb) => ~handleRequestApproval]_vars

\* C4: for a consultant, edit, delete, duplicate and select of an entry that
\* isEntryLocked holds as locked are refused with the lock notice (the lock
\* check decides, also for a foreign entry), and the step changes nothing:
\* no call, no form, the same selection.
C4_LockedRefused ==
  [][\A i \in EntryIds :
       (isConsultant /\ entries[i].present /\ isEntryLocked(entries[i])
          /\ (handleEdit(i) \/ handleDelete(i) \/ handleDuplicate(i)
                \/ handleSelectEntry(i, TRUE)))
       => (notice'.kind = "locked" /\ notice'.id = i /\ UNCHANGED pageVars)]_vars

\* the delete of an own locked entry has been refused
C4_Witness ==
  /\ notice.kind = "locked" /\ notice.op = "delete"
  /\ entries[notice.id].userId = Me
  /\ dbEntries[notice.id].present

\* C5: for a consultant, edit, delete and duplicate of an entry of another
\* user are refused and change nothing, locked or not; and every PATCH of the
\* form and every DELETE in flight targets an entry of the consultant.
C5_ForeignRefused ==
  [][/\ \A i \in EntryIds :
          (isConsultant /\ entries[i].present /\ entries[i].userId # Me
             /\ (handleEdit(i) \/ handleDelete(i) \/ handleDuplicate(i)))
          => (notice'.kind \in {"locked", "owner"} /\ notice'.id = i /\ UNCHANGED pageVars)
     /\ isConsultant =>
          \A i \in deleting' \cup (IF form'.saving THEN {form'.target} \ {NoId} ELSE {}) :
            dbEntries'[i].present => dbEntries'[i].userId = Me]_vars

\* the edit of an unlocked entry of another user has been refused
C5_Witness ==
  /\ notice.kind = "owner" /\ notice.op = "edit"
  /\ entries[notice.id].userId # Me
  /\ ~form.open

\* C6: when a bulk delete is confirmed and a selected entry is locked, the
\* batch is aborted: no call is issued, nothing is deleted, and the notice
\* counts the locked selected entries.
C6_BulkDeleteAborted ==
  [][(/\ bulkActionModal.action = "delete"
      /\ \E i \in selectedEntries \cap allVisibleEntries : isEntryLocked(entries[i])
      /\ ConfirmBulk)
     => /\ notice' = Notice("bulk", NoId, "blocked",
                            Cardinality({i \in selectedEntries \cap allVisibleEntries :
                                           isEntryLocked(entries[i])}))
        /\ bulkActionModal' = NoBulk
        /\ UNCHANGED <<role, dbEntries, dbDeleted, dbSubs, entries, loading,
                       currentMonthSubmission, filterMonth, selectedEntries, form,
                       statusChangeModal, requestApprovalModal, req, deleting,
                       fetchSent, lookups>>]_vars

\* a batch of one locked and one unlocked entry has been aborted
C6_Witness ==
  /\ notice = Notice("bulk", NoId, "blocked", 1)
  /\ Cardinality(selectedEntries \cap allVisibleEntries) = 2
  /\ bulkActionModal = NoBulk
  /\ \A i \in selectedEntries : dbEntries[i].present

\* C7: an entry whose submissionId is set on the backend is neither deleted
\* nor written by the consultant's form.
C7_LockedNeverDeletedOrEdited ==
  [][\A i \in EntryIds :
       (isConsultant /\ dbEntries[i].present /\ Truthy(dbEntries[i].submissionId))
       => (dbEntries'[i].present /\ ~(form.target = i /\ SaveOk))]_vars

\* C8: isEntryLocked is false for every role but consultant, and for a
\* consultant it is true exactly when submissionId is neither null nor
\* empty, whatever the status of the entry and of the held submission.
C8_EntryLock ==
  probe.applied =>
    probe.entryLocked = (probe.role = CONSULTANT /\ probe.submissionId \notin {NoId, EmptyId})

\* an approved entry of a consultant is locked while the held submission is a draft
C8_Witness ==
  /\ probe.applied /\ probe.entryLocked
  /\ probe.status = APPROVED
  /\ probe.sub.present /\ probe.sub.status = "DRAFT"

\* C9: isMonthLocked is false for every role but consultant and for a
\* missing submission, and for a consultant it is true exactly when the
\* status of the held submission is SUBMITTED, CHANGES_REQUESTED or APPROVED.
C9_MonthLock ==
  probe.applied =>
    probe.monthLocked = (/\ probe.role = CONSULTANT
                         /\ probe.sub.present
                         /\ probe.sub.status \in {"SUBMITTED", "CHANGES_REQUESTED", "APPROVED"})

\* a submission in review does not lock the month of a consultant
C9_Witness ==
  /\ probe.applied /\ ~probe.monthLocked
  /\ probe.role = CONSULTANT
  /\ probe.sub.present /\ probe.sub.status = "IN_REVIEW"

\* C10: handleStatusChange with the status the entry already has opens no
\* dialog, issues no call and changes nothing.
C10_SameStatusNoOp ==
  [][\A i \in EntryIds, st \in TimesheetStatus :
       (entries[i].present /\ entries[i].status = st /\ handleStatusChange(i, st))
       => (UNCHANGED pageVars /\ notice'.kind = "noop")]_vars

\* the status an entry had been given before has been selected again
C10_Witness ==
  /\ notice.kind = "noop" /\ notice.op = "status"
  /\ entries[notice.id].status = APPROVED
  /\ ~statusChangeModal.isOpen

\* what a status-change call must carry for a status and a message
ExpectedPayload(st, msg) ==
  [status |-> st,
   statusDescription |-> IF msg = "" THEN Undefined ELSE msg,
   approverId |-> IF st \in {APPROVED, REJECTED} THEN Me ELSE Undefined,
   approvedAt |-> IF st \in {APPROVED, REJECTED} THEN Now ELSE Undefined]

\* C11: the call of confirmStatusChange carries the new status and the
\* message if there is one, and approverId (the acting user) and approvedAt
\* exactly when the new status is APPROVED or REJECTED; a bulk approve or
\* reject issues one call per selected id, each with the status of the
\* action, the same message, approverId and approvedAt.
C11_StatusPayloads ==
  /\ probe.singleDone => probe.single = ExpectedPayload(probe.newStatus, probe.message)
  /\ probe.bulkDone =>
       /\ {c.id : c \in probe.bulk} = probe.selected
       /\ Cardinality(probe.bulk) = Cardinality(probe.selected)
       /\ \A c \in probe.bulk :
            c.payload = ExpectedPayload(IF probe.action = "approve" THEN APPROVED ELSE REJECTED,
                                        probe.message)

\* a change to PENDING with a message, and a bulk reject of two entries
C11_Witness ==
  /\ probe.singleDone /\ probe.newStatus = PENDING /\ probe.message = "ok"
  /\ probe.single.approverId = Undefined /\ probe.single.approvedAt = Undefined
  /\ probe.bulkDone /\ probe.action = "reject" /\ Cardinality(probe.bulk) = 2

\* C12: the step in which a bulk action completes (the last of its calls
\* is answered, with success or with failure) leaves the selection empty
\* and issues a refetch.
C12_BulkCompletionClearsAndRefetches ==
  [][\A i \in EntryIds :
       ((BulkCallOk(i) \/ BulkCallFail(i)) /\ bulkActionModal'.call = "none")
         => (selectedEntries' = {} /\ fetchSent' = fetchSent + 1)]_vars

\* a step in which a user-triggered operation takes its failure path
FailureStep ==
  \/ \E i \in EntryIds : DeleteFail(i)
  \/ SaveFail
  \/ StatusCallFail
  \/ \E i \in EntryIds : BulkCallFail(i) /\ bulkActionModal.awaiting
  \/ \E s \in ReqSlots : ReqLookup(s) /\ req'[s] = IdleReq
  \/ \E s \in ReqSlots : ReqWriteFail(s) \/ ReqAssocFail(s)

\* C13: every failure path of a user-triggered operation (save, delete,
\* single status change, bulk action, request approval) shows a notice to
\* the user and issues a data refetch.
C13_FailureNoticeThenRefetch ==
  [][FailureStep => (notice'.kind = "error" /\ fetchSent' = fetchSent + 1)]_vars

\* C14: for a consultant the visible entries are exactly the acting user's
\* entries of the active month, whatever the persisted optional filters
\* hold; no entry of another user is among the rows that can be selected.
C14_ConsultantSeesOwnMonth ==
  role = CONSULTANT =>
    /\ filtered(role, probe, filterMonth, Rows)
         = {e \in Rows : e.userId = Me /\ e.date.month = ActiveMonth(filterMonth)}
    /\ \A e \in filtered(role, probe, filterMonth, Rows) : e.userId = Me

\* a consultant whose stored filters name another user, a project, a status
\* and a date of the other month still sees own entries of the chosen month
C14_Witness ==
  /\ role = CONSULTANT /\ filterMonth = 2
  /\ probe.filterUser = "u2" /\ probe.filterProject = "p1"
  /\ probe.filterStatus = APPROVED
  /\ filtered(role, probe, filterMonth, Rows) # {}

\* C16: one month is active at all times: the active month is a month
\* before and after every step, no user action leaves filterMonth empty, an
\* empty stored filterMonth is replaced by the current month (a missing one
\* never shows as empty), and selecting a month makes it the active month
\* and clears the exact-date filter, leaving user, project and status alone.
C16_OneActiveMonth ==
  [][/\ ActiveMonth(filterMonth) \in Months /\ ActiveMonth(filterMonth') \in Months
     /\ FilterUserAction => filterMonth' \in Months
     /\ filterMonth = NoMonth => filterMonth' = CurrentMonth
     /\ \A m \in Months :
          SelectMonthButton(m) =>
            /\ filterMonth' = m /\ ActiveMonth(filterMonth') = m
            /\ probe'.filterDate = NoDate
            /\ probe'.filterUser = probe.filterUser
            /\ probe'.filterProject = probe.filterProject
            /\ probe'.filterStatus = probe.filterStatus]_vars

\* an admin with a user, a status and a date filter has chosen the other month
C16_Witness ==
  /\ role = ADMIN /\ filterMonth = 2
  /\ probe.filterUser = "u1" /\ probe.filterStatus = REJECTED
  /\ probe.filterDate = NoDate

\* C17: for every HH:MM string with two digits of hours in 00..23 and two
\* digits of minutes in 00..59, decimalToTime(timeToDecimal(s)) is s.
C17_RoundTrip ==
  (/\ probe.op = "convert"
   /\ Len(probe.input) = 5 /\ probe.input[3] = ":"
   /\ \A k \in {1, 2, 4, 5} : probe.input[k] \in Digits
   /\ DigitValue(probe.input[1]) * 10 + DigitValue(probe.input[2]) <= 23
   /\ DigitValue(probe.input[4]) * 10 + DigitValue(probe.input[5]) <= 59)
    => probe.shown = probe.input

\* 07:05 was converted to 7 hours and 5 minutes and shown again
C17_Witness ==
  /\ probe.op = "convert" /\ probe.input = <<"0", "7", ":", "0", "5">>
  /\ probe.decimal.sixtieths = 425 /\ probe.shown = probe.input

\* C18: applyTimeMask keeps the first four digits of its input and nothing
\* else, unchanged when there are at most two, with one colon after the
\* second digit otherwise; more than four digits give DD:DD of the first four.
C18_Mask ==
  probe.op = "mask" =>
    LET digits == SelectSeq(probe.input, LAMBDA c : c \in Digits)
        n == Len(digits)
        kept == IF n > 4 THEN 4 ELSE n
    IN /\ SelectSeq(probe.masked, LAMBDA c : c \in Digits) = SubSeq(digits, 1, kept)
       /\ n <= 2 => probe.masked = digits
       /\ n > 2 => /\ Len(probe.masked) = kept + 1
                   /\ probe.masked[3] = ":"
       /\ n > 4 => probe.masked = <<digits[1], digits[2], ":", digits[3], digits[4]>>

\* six keys with five digits among them were masked to four digits
C18_Witness ==
  /\ probe.op = "mask" /\ probe.input = <<"1", "x", "7", "0", "1", "7">>
  /\ probe.masked = <<"1", "7", ":", "0", "1">>

\* C19: the validator accepts exactly the strings of one or two digits, a
\* colon and two digits with hours up to 23, minutes up to 59 and a total
\* above zero; 00:00 and the empty string are rejected, 00:01 is accepted;
\* the hours that onSubmit converts from an accepted string are above zero.
C19_DurationValid ==
  probe.op = "validate" =>
    LET str == probe.input
        shaped == /\ Len(str) \in {4, 5}
                  /\ \E h \in {1, 2} :
                       /\ Len(str) = h + 3 /\ str[h + 1] = ":"
                       /\ \A k \in (1..h) \cup {h + 2, h + 3} : str[k] \in Digits
        hh == IF Len(str) = 5 THEN DigitValue(str[1]) * 10 + DigitValue(str[2])
              ELSE DigitValue(str[1])
        mm == DigitValue(str[Len(str) - 1]) * 10 + DigitValue(str[Len(str)])
    IN /\ probe.accepted <=> (shaped /\ hh <= 23 /\ mm <= 59 /\ hh * 60 + mm > 0)
       /\ probe.accepted => probe.decimal.sixtieths > 0
       /\ str = <<"0", "0", ":", "0", "0">> => ~probe.accepted
       /\ str = <<>> => ~probe.accepted
       /\ str = <<"0", "0", ":", "0", "1">> => probe.accepted

\* 00:01 passed the validator and was converted to one minute
C19_Witness ==
  /\ probe.op = "validate" /\ probe.input = <<"0", "0", ":", "0", "1">>
  /\ probe.accepted /\ probe.decimal.sixtieths = 1

\* the duration that a shown total stands for, in minutes
ShownMinutes(str) ==
  parseInt(SubSeq(str, 1, Len(str) - 3)) * 60 + parseInt(SubSeq(str, Len(str) - 1, Len(str)))

C20_ApproverOnlyWhenDecided ==
  \A i \in EntryIds :
    (dbEntries[i].present /\ dbEntries[i].approverId # NoUser)
      => dbEntries[i].status \in {APPROVED, REJECTED}

\* C21: every creation request issued by the form (the form was opened by
\* handleCreate or handleDuplicate, so no entry is being edited) carries
\* status PENDING, whoever submits it.
C21_CreatedPending ==
  [][\A u \in Users, m \in Months, st \in TimesheetStatus :
       (onSubmit(u, m, st) /\ form.editing = NoId) => form'.data.status = PENDING]_vars

\* C22: for every role other than consultant that can open the page, the
\* visible entries are exactly the entries of the active month that match
\* every optional filter that is present (user, project, status, date).
C22_ElevatedFiltersApplied ==
  role \in PageRoles \ {CONSULTANT} =>
    filtered(role, probe, filterMonth, Rows)
      = {e \in Rows :
           /\ e.date.month = ActiveMonth(filterMonth)
           /\ probe.filterUser # "" => e.userId = probe.filterUser
           /\ probe.filterProject # "" => e.projectId = probe.filterProject
           /\ probe.filterStatus # "" => e.status = probe.filterStatus
           /\ probe.filterDate # NoDate => e.date.month * 100 + e.date.day = probe.filterDate}

\* C23: cancelling a proposed status change closes the dialog with its
\* entry and status reset, issues a refetch and no write call, and leaves
\* the backend as it is.
C23_CancelStatusChange ==
  [][cancelStatusChange =>
       /\ ~statusChangeModal'.isOpen
       /\ statusChangeModal'.entry = NoId /\ statusChangeModal'.newStatus = NoStatus.newStatus
       /\ statusChangeModal'.callId = statusChangeModal.callId
       /\ fetchSent' = fetchSent + 1
       /\ dbEntries' = dbEntries /\ dbSubs' = dbSubs /\ dbDeleted' = dbDeleted
       /\ deleting' = deleting /\ form' = form /\ bulkActionModal' = bulkActionModal
       /\ req' = req /\ ops' = ops]_vars

\* an admin proposed a change and cancelled it: the dialog is closed, no
\* write was issued in the session and the refetch is in flight
C23_Witness ==
  /\ role = ADMIN /\ ~loading /\ ops = 0
  /\ statusChangeModal = NoStatus /\ bulkActionModal = NoBulk /\ form = NoForm
  /\ fetchSent = 1
  /\ \E i \in EntryIds : dbEntries[i].present /\ entries[i] = dbEntries[i]

\* C24: no write of the page clears a submissionId that is set, and only the
\* association step of request approval changes it.
C24_SubmissionIdKept ==
  probe.op # "none" =>
    /\ probe.entry.submissionId # NoId => probe.result.submissionId # NoId
    /\ probe.result.submissionId # probe.entry.submissionId => probe.op = "assoc"
    /\ probe.result.present

\* an associated entry was edited through the form, month and status
\* changed, and still has its submission
C24_Witness ==
  /\ probe.op = "form" /\ probe.entry.submissionId = 1
  /\ probe.result.month # probe.entry.month /\ probe.result.status # probe.entry.status
  /\ probe.result.submissionId = 1

C26_SelectAll ==
  LET ids == DOMAIN probe.rows
      locked == {i \in ids : role = CONSULTANT /\ probe.rows[i].submissionId \notin {NoId, EmptyId}}
      unlocked == ids \ locked
      group == {i \in ids : probe.rows[i].day = probe.day}
  IN /\ probe.op = "all" =>
          /\ ~(unlocked \subseteq probe.before) => probe.after = unlocked
          /\ unlocked \subseteq probe.before => probe.after = {}
     /\ probe.op = "group" =>
          /\ probe.checked => probe.after = probe.before \cup (group \ locked)
          /\ ~probe.checked => probe.after = probe.before \ (group \ locked)
          /\ probe.after \ group = probe.before \ group
     /\ probe.op # "none" => (probe.after \ probe.before) \cap locked = {}

\* a consultant checks the group of day 1, which holds a locked and an
\* unlocked entry, while an entry of day 2 is selected
C26_Witness ==
  /\ role = CONSULTANT /\ probe.op = "group" /\ probe.day = 1 /\ probe.checked
  /\ probe.rows[1].day = 1 /\ probe.rows[1].submissionId # NoId
  /\ probe.rows[2].day = 1 /\ probe.rows[2].submissionId = NoId
  /\ probe.rows[3].day = 2
  /\ probe.before = {3} /\ probe.after = {2, 3}

\* the answers 404 and failure of the by-user-month lookup
NotFound == [st |-> "404", sub |-> NoSub]
LookupFailed == [st |-> "error", sub |-> NoSub]

\* C27: a 404 of the submission lookup means that there is no submission:
\* fetchCurrentMonthSubmission then holds none and the month is not locked;
\* request approval then goes on and creates a submission; any other failure
\* of the lookup in request approval ends the run with no write issued.
C27_NotFoundIsAbsence ==
  [][/\ \A m \in Months :
          LookupDelivered(m, NotFound)
            => (currentMonthSubmission' = NoSub /\ ~isMonthLockedFor(role, currentMonthSubmission'))
     /\ \A s \in ReqSlots :
          /\ ReqLookupAnswer(s, NotFound)
               => (req'[s].pc = "write" /\ req'[s].subId = NoId /\ notice'.kind # "error")
          /\ (ReqWrite(s) /\ req[s].subId = NoId)
               => \E i \in SubIds : /\ ~dbSubs[i].present
                                    /\ dbSubs'[i] = Sub(i, Me, req[s].month, "SUBMITTED")
          /\ ReqLookupAnswer(s, LookupFailed)
               => (req'[s] = IdleReq /\ dbSubs' = dbSubs /\ dbEntries' = dbEntries)]_vars

\* the lookup of a request for approval was answered 404 and the run is
\* about to create the submission, while the page holds no submission
C27_Witness ==
  /\ \E s \in ReqSlots : req[s].pc = "write" /\ req[s].subId = NoId
  /\ currentMonthSubmission = NoSub /\ lookups = {}
  /\ \A i \in SubIds : ~(dbSubs[i].present /\ dbSubs[i].userId = Me)

\* C28: whenever the month of a consultant is locked (the submission of the
\* month is SUBMITTED, CHANGES_REQUESTED or APPROVED), every entry of that
\* consultant in that month has a submissionId.  Stated for the states in
\* which no call is in flight, so that a run that is still associating the
\* entries does not count.
C28_LockedMonthAllAssociated ==
  InFlight = 0 =>
  \A j \in SubIds :
    (dbSubs[j].present /\ dbSubs[j].userId = Me /\ dbSubs[j].status \in LockingStatuses)
      => \A i \in EntryIds :
           (dbEntries[i].present /\ dbEntries[i].userId = Me
              /\ dbEntries[i].month = dbSubs[j].month)
             => dbEntries[i].submissionId # NoId

C30_HeldSubmissionOfActiveMonth ==
  (isConsultant /\ lookups = {})
    => IF SubsOf(Me, filterMonth) = {}
       THEN currentMonthSubmission = NoSub
       ELSE currentMonthSubmission \in {dbSubs[i] : i \in SubsOf(Me, filterMonth)}

====
